---- MODULE Spec2Model ----
(***************************************************************************)
(* The end-to-end test harness of tests-e2e: the pytest session hooks of   *)
(* conftest.py (deployment bring-up, readiness probes, teardown), the      *)
(* per-test clean_databases reset pass and the fixture loaders of          *)
(* fixtures_data.py, run against four PostgreSQL stores through one        *)
(* psycopg2 connection per store.                                          *)
(***************************************************************************)
EXTENDS Naturals, Integers, Sequences, FiniteSets, TLC

VARIABLES
    pc,         \* position of the session: which hook / fixture / step runs next
    probeIdx,   \* index in Probes of the readiness probe being (or last) polled
    elapsed,    \* tenacity's seconds_since_start of the running probe
    lastResp,   \* response of the last poll of the running probe ("none" before it)
    polls,      \* for each probe, has it been attempted; has it succeeded
    upRc,       \* exit status of the two launch commands ("none" until issued)
    downs,      \* number of "down -v" commands issued so far
    testsRun,   \* number of tests that have finished
    storeIdx,   \* clean_databases: index in CleanOrder of the store being reset
    stmtIdx,    \* clean_databases: index of the next statement (0: open the cursor)
    schema,     \* for each store, the set of tables that exist in it
    db,         \* committed rows: db[store][table] is a set of row ids
    work,       \* each connection's view inside its open transaction
    conn,       \* each connection's transaction status
    nextId,     \* next value of the id sequences
    faults,     \* number of database faults (errors, lost connections) so far
    failed,     \* reset pass: the <<store, table>> whose TRUNCATE raised another error
                \* than UndefinedTable, or was skipped, in the running (or last) pass
    snap,       \* the committed rows and the failures the last finished reset pass
                \* left, while no fixture and no service has used a store since
    ev          \* what the step just taken did (a statement of the reset pass or a
                \* fixture call), op "none" for any other step

vars == <<pc, probeIdx, elapsed, lastResp, polls, upRc, downs, testsRun, storeIdx,
          stmtIdx, schema, db, work, conn, nextId, faults, failed, snap, ev>>

probeVars == <<probeIdx, elapsed, lastResp, polls>>
cleanVars == <<storeIdx, stmtIdx, failed, snap>>
dataVars == <<db, work, conn, nextId, faults>>

-----------------------------------------------------------------------------
(* Bounds of the model. *)

MaxTests == 3       \* tests run in one session
MaxId == 1          \* rows inserted in one session
MaxFaults == 1      \* database faults in one session

-----------------------------------------------------------------------------
(* Configuration: conftest.py *)

SERVICES == <<"user-service", "product-service", "order-service", "moderation-service">>

\* The probes in the order pytest_configure calls them.
Probes == <<"config-server", "eureka", "gateway">> \o SERVICES

ConfigDeadline == 900
ProbeDeadline == 500
WaitFixed == 5
RequestTimeout == 10

\* How long one request takes: it answers at once, after a second, or runs into
\* its timeout.
Durations == {0, 1, RequestTimeout}

\* The same deadline on every probe.
DeadlineSame(p) == ProbeDeadline

\* stop_after_delay of each probe's @retry decorator.
Deadline(p) == IF p = "config-server" THEN ConfigDeadline ELSE ProbeDeadline

\* What one requests.get can produce: a response with a status code and a body that
\* is a JSON object, other JSON or no JSON (an error status comes with the
\* gateway's JSON error object), or a requests.RequestException (no connection,
\* timeout): code 0.
NoResponse == [code |-> 0, body |-> "none"]
Responses ==
    {NoResponse}
        \cup {[code |-> 200, body |-> b] : b \in {"json_object", "json_other", "text"}}
        \cup {[code |-> c, body |-> "json_object"] : c \in {404, 503}}

\* resp.raise_for_status() of _check_config_server, _check_gateway, _check_eureka:
\* an exception for a 4xx/5xx status (and for a RequestException of requests.get).
RaiseForStatusOk(r) == r.code # 0 /\ r.code < 400

\* _check_service without any check of the status code.
CheckServiceOkAnyStatus(r) == r # NoResponse /\ r.body = "json_object"

\* _check_service without the check "status_code != 200".
CheckServiceOkOnly503(r) == r # NoResponse /\ r.code # 503 /\ r.body = "json_object"

\* One attempt of _check_service: TRUE when the call returns without raising.
\* requests.get raises; 503 raises; any other status than 200 raises; resp.json()
\* raises on a body that is no JSON; health_data.get raises on JSON that is no object.
CheckServiceOk(r) ==
    /\ r # NoResponse
    /\ r.code # 503
    /\ r.code = 200
    /\ r.body # "text"
    /\ r.body = "json_object"

\* One attempt of the probe p.
AttemptOk(p, r) ==
    IF p \in {"config-server", "eureka", "gateway"} THEN RaiseForStatusOk(r) ELSE CheckServiceOk(r)

\* tenacity stop_after_delay(d): stop once seconds_since_start >= d.
StopAfterDelay(p, t) == t >= Deadline(p)

-----------------------------------------------------------------------------
(* The stores and their connections. *)

\* The stores in the order clean_databases visits them.
CleanOrder == <<"db_order", "db_moderation", "db_product", "db_user">>
Stores == {CleanOrder[i] : i \in 1..Len(CleanOrder)}

\* The tables of the TRUNCATE statements, in the order of the list.
truncate_queries ==
    <<"order_items", "orders", "carts", "moderation_audit", "moderation_actions",
      "products", "shops", "user_roles", "users">>
Tables == {truncate_queries[i] : i \in 1..Len(truncate_queries)}

Roles == {"USER", "SELLER"}

\* The schemas of the system under test the harness is run against: every service
\* owns its tables; the deployment may have no user_roles table.
NominalSchema ==
    [s \in Stores |->
        CASE s = "db_order" -> {"order_items", "orders", "carts"}
          [] s = "db_moderation" -> {"moderation_audit", "moderation_actions"}
          [] s = "db_product" -> {"products", "shops"}
          [] s = "db_user" -> {"user_roles", "users"}]
Schemas == {NominalSchema, [NominalSchema EXCEPT !["db_user"] = {"users"}]}

\* Foreign keys of the rows the loaders insert (child, parent): user_roles.user_id,
\* products.shop_id. TRUNCATE ... CASCADE of the parent empties the child too.
ForeignKeys == {<<"user_roles", "users">>, <<"products", "shops">>}
Cascade(tabs, t) == {t} \cup {c \in tabs : <<c, t>> \in ForeignKeys}

EmptyTables == [t \in Tables |-> {}]

\* What the server can do with one statement: run it, refuse it with an error
\* (lock timeout, constraint violation, ...), or drop the connection.
Outcomes == {"ok", "error", "lost"}

\* A connection with its store: tabs the tables of the store, c the committed rows,
\* w the rows the open transaction sees, st the transaction status, exc the
\* exception the last call on the connection raised ("none": it returned).
Session(tabs, c, w, st) == [tabs |-> tabs, c |-> c, w |-> w, st |-> st, exc |-> "none"]

\* cur.execute of TRUNCATE TABLE t CASCADE / INSERT INTO t ... row.
Effect(S, stmt) ==
    IF stmt.kind = "truncate"
    THEN [t \in Tables |-> IF t \in Cascade(S.tabs, stmt.table) THEN {} ELSE S.w[t]]
    ELSE [S.w EXCEPT ![stmt.table] = @ \cup {stmt.row}]

Execute(S, stmt, out) ==
    CASE S.st = "closed" -> [S EXCEPT !.exc = "InterfaceError"]
      [] S.st = "inerror" -> [S EXCEPT !.exc = "InFailedSqlTransaction"]
      [] OTHER ->
            IF out = "lost" THEN [S EXCEPT !.st = "closed", !.w = S.c, !.exc = "OperationalError"]
            ELSE IF stmt.table \notin S.tabs THEN [S EXCEPT !.st = "inerror", !.exc = "UndefinedTable"]
            ELSE IF out = "error" THEN [S EXCEPT !.st = "inerror", !.exc = "DatabaseError"]
            ELSE [S EXCEPT !.st = "intrans", !.w = Effect(S, stmt), !.exc = "none"]

\* conn.commit(): makes the transaction's rows the committed ones; the server turns
\* the COMMIT of a failed transaction into a ROLLBACK.
Commit(S) ==
    CASE S.st = "closed" -> [S EXCEPT !.exc = "InterfaceError"]
      [] S.st = "intrans" -> [S EXCEPT !.st = "idle", !.c = S.w, !.exc = "none"]
      [] OTHER -> [S EXCEPT !.st = "idle", !.w = S.c, !.exc = "none"]

\* conn.rollback(): drops the transaction's rows.
Rollback(S) ==
    IF S.st = "closed" THEN [S EXCEPT !.exc = "InterfaceError"]
    ELSE [S EXCEPT !.st = "idle", !.w = S.c, !.exc = "none"]

\* conn.cursor(): raises on a closed connection.
Cursor(S) == IF S.st = "closed" THEN [S EXCEPT !.exc = "InterfaceError"] ELSE [S EXCEPT !.exc = "none"]

-----------------------------------------------------------------------------
(* The fixture loaders: fixtures_data.py *)

Insert(t, row) == [kind |-> "insert", table |-> t, row |-> row]
Truncate(t) == [kind |-> "truncate", table |-> t, row |-> 0]

\* The result of a loader: S the connection afterwards, ret the identifier returned
\* (0 when it raised), exc the exception raised to the caller, n the number of role
\* inserts executed.
Result(S, ret, exc, n) == [S |-> S, ret |-> ret, exc |-> exc, n |-> n]

\* "except Exception: raise": the exception is passed on without a rollback.
RaiseWithoutRollback(S, exc, n) == Result(S, 0, exc, n)

\* "except Exception: conn.rollback(); raise": an exception of the rollback itself
\* is the one that reaches the caller.
RollbackAndRaise(S, exc, n) ==
    LET R == Rollback(S)
    IN  Result(R, 0, IF R.exc # "none" THEN R.exc ELSE exc, n)

\* The loop over the roles with "continue" in place of "break": after a missing
\* table every role left in the list is still attempted.
RECURSIVE InsertRolesContinue(_, _, _, _, _, _)
InsertRolesContinue(S, user_id, roles, i, failAt, failKind) ==
    IF i > Len(roles) THEN [S |-> [S EXCEPT !.exc = "none"], n |-> i - 1]
    ELSE LET R == Execute(S, Insert("user_roles", <<user_id, roles[i]>>),
                          IF i = failAt THEN failKind ELSE "ok")
         IN  IF R.exc = "UndefinedTable"
             THEN InsertRolesContinue(Rollback(R), user_id, roles, i + 1, failAt, failKind)
             ELSE IF R.exc # "none" THEN [S |-> R, n |-> i]
             ELSE InsertRolesContinue(R, user_id, roles, i + 1, failAt, failKind)

\* The loop over the roles from role i on; the insert of role failAt meets failKind.
\* UndefinedTable: conn.rollback() and break. Any other exception leaves the loop.
RECURSIVE InsertRoles(_, _, _, _, _, _)
InsertRoles(S, user_id, roles, i, failAt, failKind) ==
    IF i > Len(roles) THEN [S |-> [S EXCEPT !.exc = "none"], n |-> i - 1]
    ELSE LET R == Execute(S, Insert("user_roles", <<user_id, roles[i]>>),
                          IF i = failAt THEN failKind ELSE "ok")
         IN  IF R.exc = "UndefinedTable" THEN [S |-> Rollback(R), n |-> i]
             ELSE IF R.exc # "none" THEN [S |-> R, n |-> i]
             ELSE InsertRoles(R, user_id, roles, i + 1, failAt, failKind)

\* create_user that commits the user row before it inserts the roles.
create_user_commits_early(S, user_id, roles, out, failAt, failKind) ==
    LET S1 == Cursor(S)
        S2 == Commit(Execute(S1, Insert("users", user_id), out))
        L  == InsertRoles(S2, user_id, roles, 1, failAt, failKind)
        S3 == Commit(L.S)
    IN  IF S1.exc # "none" THEN RollbackAndRaise(S1, S1.exc, 0)
        ELSE IF S2.exc # "none" THEN RollbackAndRaise(S2, S2.exc, 0)
        ELSE IF L.S.exc # "none" THEN RollbackAndRaise(L.S, L.S.exc, L.n)
        ELSE IF S3.exc # "none" THEN RollbackAndRaise(S3, S3.exc, L.n)
        ELSE Result(S3, user_id, "none", L.n)

\* create_user(conn, username, email, roles) with user_id the value the sequence
\* gives the row; out is what happens to the INSERT INTO users.
create_user(S, user_id, roles, out, failAt, failKind) ==
    LET S1 == Cursor(S)
        S2 == Execute(S1, Insert("users", user_id), out)
        L  == InsertRoles(S2, user_id, roles, 1, failAt, failKind)
        S3 == Commit(L.S)
    IN  IF S1.exc # "none" THEN RollbackAndRaise(S1, S1.exc, 0)
        ELSE IF S2.exc # "none" THEN RollbackAndRaise(S2, S2.exc, 0)
        ELSE IF L.S.exc # "none" THEN RollbackAndRaise(L.S, L.S.exc, L.n)
        ELSE IF S3.exc # "none" THEN RollbackAndRaise(S3, S3.exc, L.n)
        ELSE Result(S3, user_id, "none", L.n)

\* create_shop / create_product: one INSERT ... RETURNING id, then commit.
InsertOne(S, t, id, out) ==
    LET S1 == Cursor(S)
        S2 == Execute(S1, Insert(t, id), out)
        S3 == Commit(S2)
    IN  IF S1.exc # "none" THEN RollbackAndRaise(S1, S1.exc, 0)
        ELSE IF S2.exc # "none" THEN RollbackAndRaise(S2, S2.exc, 0)
        ELSE IF S3.exc # "none" THEN RollbackAndRaise(S3, S3.exc, 0)
        ELSE Result(S3, id, "none", 0)

create_shop(S, shop_id, out) == InsertOne(S, "shops", shop_id, out)
create_product(S, product_id, out) == InsertOne(S, "products", product_id, out)

\* The role lists a caller passes: none, one role (the fixtures), several.
RoleLists == {<<>>, <<"USER">>, <<"SELLER">>, <<"SELLER", "USER">>}

-----------------------------------------------------------------------------
(* One statement of the reset pass: conftest.py, clean_databases *)

\* TryTruncate without the commit after each statement.
TryTruncateNoCommit(S, t, out) ==
    LET E == Execute(S, Truncate(t), out)
    IN  IF E.exc = "none" THEN [S |-> E, exc |-> "none"]
        ELSE [S |-> Rollback(E), exc |-> E.exc]

\* TryTruncate whose "except Exception" branch does not roll back.
TryTruncateNoRollback(S, t, out) ==
    LET E == Execute(S, Truncate(t), out)
        C == Commit(E)
    IN  IF E.exc = "none" /\ C.exc = "none" THEN [S |-> C, exc |-> "none"]
        ELSE IF E.exc = "UndefinedTable" THEN [S |-> Rollback(E), exc |-> E.exc]
        ELSE [S |-> [E EXCEPT !.exc = "none"], exc |-> E.exc]

\* The statement with its commit issued before it: each statement commits the
\* one before it, and the last one of a store is left to the next pass.
TryTruncateCommitFirst(S, t, out) ==
    LET C == Commit(S)
        E == Execute(C, Truncate(t), out)
    IN  IF C.exc = "none" /\ E.exc = "none" THEN [S |-> E, exc |-> "none"]
        ELSE [S |-> Rollback(IF C.exc = "none" THEN E ELSE C),
              exc |-> IF C.exc = "none" THEN E.exc ELSE C.exc]

\* try: cur.execute(q); conn.commit()
\* except UndefinedTable: conn.rollback()
\* except Exception: conn.rollback(); print(warning)
\* exc is the exception of the execute/commit, S.exc that of the rollback: it
\* leaves the loop over the statements.
TryTruncate(S, t, out) ==
    LET E == Execute(S, Truncate(t), out)
        C == Commit(E)
    IN  IF E.exc = "none" /\ C.exc = "none" THEN [S |-> C, exc |-> "none"]
        ELSE [S |-> Rollback(IF E.exc = "none" THEN C ELSE E),
              exc |-> IF E.exc = "none" THEN C.exc ELSE E.exc]

-----------------------------------------------------------------------------
(* The state machine. *)

\* No poll of the running probe yet.
NoResp == [code |-> -1, body |-> "none"]
\* No reset pass has finished, or a store was used since.
NoSnap == [valid |-> FALSE, db |-> [s \in Stores |-> EmptyTables], failed |-> {}]
NoEv == [op |-> "none", store |-> "none", table |-> "none", id |-> 0, exc |-> "none", n |-> 0]
Ev(op, s, t, id, exc, n) == [op |-> op, store |-> s, table |-> t, id |-> id, exc |-> exc, n |-> n]

Sess(s) == Session(schema[s], db[s], work[s], conn[s])

\* The connection and the store of s after a call that left them as S.
Store(s, S) ==
    /\ db' = [db EXCEPT ![s] = S.c]
    /\ work' = [work EXCEPT ![s] = S.w]
    /\ conn' = [conn EXCEPT ![s] = S.st]

\* A fault can be injected while the budget lasts, and only into a statement that
\* reaches the server.
MayFault(s, out) == out = "ok" \/ (faults < MaxFaults /\ conn[s] # "closed")
Charge(out) == faults' = IF out = "ok" THEN faults ELSE faults + 1

Init ==
    /\ pc = "stop_old"
    /\ probeIdx = 0
    /\ elapsed = 0
    /\ lastResp = NoResp
    /\ polls = [i \in 1..Len(Probes) |-> "none"]
    /\ upRc = [config |-> "none", full |-> "none"]
    /\ downs = 0
    /\ testsRun = 0
    /\ storeIdx = 0
    /\ stmtIdx = 0
    /\ schema \in Schemas
    /\ db = [s \in Stores |-> EmptyTables]
    /\ work = [s \in Stores |-> EmptyTables]
    /\ conn = [s \in Stores |-> "idle"]
    /\ nextId = 1
    /\ faults = 0
    /\ failed = {}
    /\ snap = NoSnap
    /\ ev = NoEv

(* pytest_configure *)

\* docker-compose down -v, check=False: the exit status is not looked at.
StopOldContainers ==
    /\ pc = "stop_old"
    /\ downs' = downs + 1
    /\ pc' = "start_config"
    /\ UNCHANGED <<probeVars, upRc, testsRun, cleanVars, schema, dataVars, ev>>

\* docker-compose up -d --build config-server, check=False; then the first probe.
StartConfigServer ==
    /\ pc = "start_config"
    /\ \E rc \in {"ok", "failed"} : upRc' = [upRc EXCEPT !.config = rc]
    /\ pc' = "probe"
    /\ probeIdx' = 1
    /\ elapsed' = 0
    /\ lastResp' = NoResp
    /\ UNCHANGED <<polls, downs, testsRun, cleanVars, schema, dataVars, ev>>

\* Poll with "except Exception" printing the error without raising SystemExit: the
\* next step of pytest_configure runs after a probe that gave up.
PollSwallowsRetryError ==
    /\ pc = "probe"
    /\ \E r \in Responses, d \in Durations :
        LET p == Probes[probeIdx]
            t == elapsed + d
        IN  /\ lastResp' = r
            /\ IF AttemptOk(p, r)
               THEN /\ pc' = "probed"
                    /\ elapsed' = t
                    /\ polls' = [polls EXCEPT ![probeIdx] = "ok"]
               ELSE IF StopAfterDelay(p, t)
               THEN /\ pc' = "probed"
                    /\ elapsed' = t
                    /\ polls' = [polls EXCEPT ![probeIdx] = "failed"]
               ELSE /\ pc' = "probe"
                    /\ elapsed' = t + WaitFixed
                    /\ polls' = [polls EXCEPT ![probeIdx] = "polling"]
    /\ UNCHANGED <<probeIdx, upRc, downs, testsRun, cleanVars, schema, dataVars, ev>>

\* One attempt of the running probe under its @retry decorator: the request takes
\* d seconds and gives r. A return ends the probe; an exception ends it with
\* RetryError once stop_after_delay says so, else the probe sleeps wait_fixed.
\* RetryError of _check_config_server leaves pytest_configure, that of the others
\* is turned into SystemExit(1): either way the session is aborted.
Poll ==
    /\ pc = "probe"
    /\ \E r \in Responses, d \in Durations :
        LET p == Probes[probeIdx]
            t == elapsed + d
        IN  /\ lastResp' = r
            /\ IF AttemptOk(p, r)
               THEN /\ pc' = "probed"
                    /\ elapsed' = t
                    /\ polls' = [polls EXCEPT ![probeIdx] = "ok"]
               ELSE IF StopAfterDelay(p, t)
               THEN /\ pc' = "aborted"
                    /\ elapsed' = t
                    /\ polls' = [polls EXCEPT ![probeIdx] = "failed"]
               ELSE /\ pc' = "probe"
                    /\ elapsed' = t + WaitFixed
                    /\ polls' = [polls EXCEPT ![probeIdx] = "polling"]
    /\ UNCHANGED <<probeIdx, upRc, downs, testsRun, cleanVars, schema, dataVars, ev>>

\* docker-compose up -d --build after the configuration server's probe: the result
\* is kept in a variable nothing reads. Then the Eureka probe.
StartCompose ==
    /\ pc = "probed"
    /\ probeIdx = 1
    /\ \E rc \in {"ok", "failed"} : upRc' = [upRc EXCEPT !.full = rc]
    /\ pc' = "probe"
    /\ probeIdx' = 2
    /\ elapsed' = 0
    /\ lastResp' = NoResp
    /\ UNCHANGED <<polls, downs, testsRun, cleanVars, schema, dataVars, ev>>

\* The next probe of the try block.
NextProbe ==
    /\ pc = "probed"
    /\ probeIdx > 1
    /\ probeIdx < Len(Probes)
    /\ pc' = "probe"
    /\ probeIdx' = probeIdx + 1
    /\ elapsed' = 0
    /\ lastResp' = NoResp
    /\ UNCHANGED <<polls, upRc, downs, testsRun, cleanVars, schema, dataVars, ev>>

\* pytest_configure returning after the gateway's probe, without the services' probes.
AllReadyAfterGateway ==
    /\ pc = "probed"
    /\ probeIdx >= Len(Probes) - Len(SERVICES)
    /\ pc' = "ready"
    /\ elapsed' = 0
    /\ lastResp' = NoResp
    /\ UNCHANGED <<probeIdx, polls, upRc, downs, testsRun, cleanVars, schema, dataVars, ev>>

\* pytest_configure returns: the tests are collected and run.
AllReady ==
    /\ pc = "probed"
    /\ probeIdx = Len(Probes)
    /\ pc' = "ready"
    /\ elapsed' = 0
    /\ lastResp' = NoResp
    /\ UNCHANGED <<probeIdx, polls, upRc, downs, testsRun, cleanVars, schema, dataVars, ev>>

(* clean_databases *)

\* The position with the try around the loop over the stores: a store that is
\* given up ends the pass.
AdvanceEndsPassOnSkip(si, i, skip) ==
    IF skip THEN /\ pc' = "test" /\ storeIdx' = si /\ stmtIdx' = i
    ELSE IF i < Len(truncate_queries)
    THEN /\ pc' = "clean" /\ storeIdx' = si /\ stmtIdx' = i + 1
    ELSE IF si < Len(CleanOrder)
    THEN /\ pc' = "clean" /\ storeIdx' = si + 1 /\ stmtIdx' = 0
    ELSE /\ pc' = "test" /\ storeIdx' = si /\ stmtIdx' = i

\* The position after statement i of store si; skip: the store's loop was left.
Advance(si, i, skip) ==
    IF ~skip /\ i < Len(truncate_queries)
    THEN /\ pc' = "clean" /\ storeIdx' = si /\ stmtIdx' = i + 1
    ELSE IF si < Len(CleanOrder)
    THEN /\ pc' = "clean" /\ storeIdx' = si + 1 /\ stmtIdx' = 0
    ELSE /\ pc' = "test" /\ storeIdx' = si /\ stmtIdx' = i

\* What the pass left, once its last statement is done.
Remember ==
    snap' = IF pc' = "test" THEN [valid |-> TRUE, db |-> db', failed |-> failed'] ELSE snap

\* The autouse fixture starts the next test.
StartTest ==
    /\ pc = "ready"
    /\ testsRun < MaxTests
    /\ pc' = "clean"
    /\ storeIdx' = 1
    /\ stmtIdx' = 0
    /\ failed' = {}
    /\ ev' = NoEv
    /\ UNCHANGED <<probeVars, upRc, downs, testsRun, schema, dataVars, snap>>

\* with conn.cursor() as cur: on an exception the store is given up.
CleanOpenCursor ==
    /\ pc = "clean"
    /\ stmtIdx = 0
    /\ LET s == CleanOrder[storeIdx]
           S == Cursor(Sess(s))
       IN  /\ Advance(storeIdx, 0, S.exc # "none")
           /\ failed' = IF S.exc # "none" THEN failed \cup {<<s, t>> : t \in Tables} ELSE failed
           /\ ev' = Ev("cursor", s, "none", 0, S.exc, 0)
    /\ UNCHANGED <<probeVars, upRc, downs, testsRun, schema, dataVars>>
    /\ Remember

\* One statement of the list on the store's connection.
CleanExecute ==
    /\ pc = "clean"
    /\ stmtIdx > 0
    /\ \E out \in Outcomes :
        LET s == CleanOrder[storeIdx]
            t == truncate_queries[stmtIdx]
            R == TryTruncate(Sess(s), t, out)
            left == {<<s, truncate_queries[j]>> : j \in stmtIdx + 1..Len(truncate_queries)}
        IN  /\ MayFault(s, out)
            /\ out # "ok" => t \in schema[s]
            /\ Charge(out)
            /\ Store(s, R.S)
            /\ Advance(storeIdx, stmtIdx, R.S.exc # "none")
            /\ failed' = failed \cup (IF R.exc \in {"none", "UndefinedTable"} THEN {} ELSE {<<s, t>>})
                                \cup (IF R.S.exc # "none" THEN left ELSE {})
            /\ ev' = Ev("truncate", s, t, 0, R.exc, Cardinality(db[s][t]))
    /\ UNCHANGED <<probeVars, upRc, downs, testsRun, schema, nextId>>
    /\ Remember

(* A test: its fixtures and its body *)

CreateUser ==
    /\ pc = "test"
    /\ nextId <= MaxId
    /\ \E roles \in RoleLists, out \in Outcomes, failAt \in 0..2, failKind \in {"error", "lost"} :
        LET s == "db_user"
            main == "users" \in schema[s]
            R == create_user(Sess(s), nextId, roles, out, failAt, failKind)
        IN  /\ failAt <= Len(roles)
            /\ out # "ok" => failAt = 0 /\ main /\ faults < MaxFaults /\ conn[s] # "closed"
            /\ failAt > 0 => main /\ "user_roles" \in schema[s] /\ faults < MaxFaults /\ conn[s] # "closed"
            /\ faults' = IF out # "ok" \/ failAt > 0 THEN faults + 1 ELSE faults
            /\ Store(s, R.S)
            /\ ev' = Ev("create_user", s, "users", R.ret, R.exc, R.n)
    /\ nextId' = nextId + 1
    /\ failed' = {}
    /\ snap' = NoSnap
    /\ UNCHANGED <<pc, probeVars, upRc, downs, testsRun, storeIdx, stmtIdx, schema>>

CreateShop ==
    /\ pc = "test"
    /\ nextId <= MaxId
    /\ \E out \in Outcomes :
        LET s == "db_product"
            R == create_shop(Sess(s), nextId, out)
        IN  /\ MayFault(s, out)
            /\ out # "ok" => "shops" \in schema[s]
            /\ Charge(out)
            /\ Store(s, R.S)
            /\ ev' = Ev("create_shop", s, "shops", R.ret, R.exc, 0)
    /\ nextId' = nextId + 1
    /\ failed' = {}
    /\ snap' = NoSnap
    /\ UNCHANGED <<pc, probeVars, upRc, downs, testsRun, storeIdx, stmtIdx, schema>>

CreateProduct ==
    /\ pc = "test"
    /\ nextId <= MaxId
    /\ \E out \in Outcomes :
        LET s == "db_product"
            R == create_product(Sess(s), nextId, out)
        IN  /\ MayFault(s, out)
            /\ out # "ok" => "products" \in schema[s]
            /\ Charge(out)
            /\ Store(s, R.S)
            /\ ev' = Ev("create_product", s, "products", R.ret, R.exc, 0)
    /\ nextId' = nextId + 1
    /\ failed' = {}
    /\ snap' = NoSnap
    /\ UNCHANGED <<pc, probeVars, upRc, downs, testsRun, storeIdx, stmtIdx, schema>>

\* A request of the test makes a service commit a row in one of its tables, over
\* the service's own connection.
ServiceWrite ==
    /\ pc = "test"
    /\ nextId <= MaxId
    /\ \E s \in Stores : \E t \in schema[s] :
        LET row == IF t = "user_roles" THEN <<nextId, "USER">> ELSE nextId
        IN  /\ db' = [db EXCEPT ![s][t] = @ \cup {row}]
            /\ work' = [work EXCEPT ![s][t] = @ \cup {row}]
    /\ nextId' = nextId + 1
    /\ ev' = NoEv
    /\ failed' = {}
    /\ snap' = NoSnap
    /\ UNCHANGED <<pc, probeVars, upRc, downs, testsRun, storeIdx, stmtIdx, schema, conn, faults>>

EndTest ==
    /\ pc = "test"
    /\ pc' = "ready"
    /\ testsRun' = testsRun + 1
    /\ ev' = NoEv
    /\ failed' = {}
    /\ UNCHANGED <<probeVars, upRc, downs, storeIdx, stmtIdx, schema, dataVars, snap>>

(* pytest_sessionfinish *)

\* The teardown of a hook that runs between the tests instead of after the last.
SessionFinishBetweenTests ==
    /\ pc = "ready"
    /\ downs < 3
    /\ downs' = downs + 1
    /\ pc' = "ready"
    /\ UNCHANGED <<probeVars, upRc, testsRun, cleanVars, schema, dataVars, ev>>

\* docker-compose down -v after the last test.
SessionFinish ==
    /\ pc = "ready"
    /\ downs' = downs + 1
    /\ pc' = "finished"
    /\ UNCHANGED <<probeVars, upRc, testsRun, cleanVars, schema, dataVars, ev>>

\* The session: bring-up, probes, the tests with their reset passes, teardown.
\* What the tests write to the stores is explored by DataSpec.
Next ==
    \/ StopOldContainers
    \/ StartConfigServer
    \/ Poll
    \/ StartCompose
    \/ NextProbe
    \/ AllReady
    \/ StartTest
    \/ CleanOpenCursor
    \/ CleanExecute
    \/ EndTest
    \/ SessionFinish

Spec == Init /\ [][Next]_vars

\* The tests of a session whose bring-up succeeded: the state pytest_configure
\* leaves when it returns, then the reset passes, the loaders and the services.
DataInit ==
    /\ pc = "ready"
    /\ probeIdx = Len(Probes)
    /\ elapsed = 0
    /\ lastResp = NoResp
    /\ polls = [i \in 1..Len(Probes) |-> "ok"]
    /\ upRc = [config |-> "ok", full |-> "ok"]
    /\ downs = 1
    /\ testsRun = 0
    /\ storeIdx = 0
    /\ stmtIdx = 0
    /\ schema \in Schemas
    /\ db = [s \in Stores |-> EmptyTables]
    /\ work = [s \in Stores |-> EmptyTables]
    /\ conn = [s \in Stores |-> "idle"]
    /\ nextId = 1
    /\ faults = 0
    /\ failed = {}
    /\ snap = NoSnap
    /\ ev = NoEv

DataNext ==
    \/ StartTest
    \/ CleanOpenCursor
    \/ CleanExecute
    \/ CreateUser
    \/ CreateShop
    \/ CreateProduct
    \/ ServiceWrite
    \/ EndTest
    \/ SessionFinish

DataSpec == DataInit /\ [][DataNext]_vars

-----------------------------------------------------------------------------
(* The reset pass and the loaders: properties of DataSpec. *)

\* The reset pass has just finished: no fixture of the test is loaded yet.
JustReset == pc = "test" /\ ev.op \in {"truncate", "cursor"}

Loaders == {"create_user", "create_shop", "create_product"}

\* C1, as stated: when the reset pass has finished, every table that exists in a
\* store has no committed row.
C1_ResetLeavesNoRows ==
    JustReset => \A s \in Stores : \A t \in schema[s] : db[s][t] = {}

\* C1, amended: when the reset pass has finished, every table that exists in a
\* store has no committed row, except the tables whose TRUNCATE raised another
\* error than a missing table in this pass or was skipped because the store's
\* connection gave no cursor or could not roll back.
C1_ResetEmptiesTruncatedTables ==
    JustReset => \A s \in Stores : \A t \in schema[s] : <<s, t>> \notin failed => db[s][t] = {}

\* The pass before a later test of the session has removed a row an earlier test left.
C1_Witness == JustReset /\ testsRun > 0 /\ ev.op = "truncate" /\ ev.exc = "none" /\ ev.n > 0

\* C2, as stated: create_user called with roles against a store without a
\* user_roles table returns an identifier whose users row is committed.
C2_UserRowCommittedWithoutRoleTable ==
    (/\ ev.op = "create_user"
     /\ ev.exc = "none"
     /\ ev.n > 0
     /\ "user_roles" \notin schema[ev.store])
    => ev.id \in db[ev.store]["users"]

\* C3: a loader that meets an exception (other than the missing role table) raises
\* it to the caller and leaves the committed rows of every store as they were, and
\* a loader raises whenever a statement of it fails or the connection is closed.
C3_FailedLoaderChangesNothing ==
    [][ev'.op \in Loaders =>
        /\ (faults' > faults \/ conn[ev'.store] = "closed") => ev'.exc # "none"
        /\ ev'.exc # "none" => db' = db /\ ev'.id = 0]_vars

\* create_user has inserted the user row and then failed on a role insert.
C3_Witness == ev.op = "create_user" /\ ev.exc = "DatabaseError" /\ ev.n > 0

\* A step of the reset pass ran a TRUNCATE statement and it raised.
TruncateFailed == pc = "clean" /\ ev'.op = "truncate" /\ ev'.exc # "none"

\* The pass goes on with the next statement of the same store (or, after the last
\* one, with the next store or the test).
NextStatement ==
    IF stmtIdx < Len(truncate_queries)
    THEN pc' = "clean" /\ storeIdx' = storeIdx /\ stmtIdx' = stmtIdx + 1
    ELSE (pc' = "clean" /\ storeIdx' = storeIdx + 1 /\ stmtIdx' = 0) \/ pc' = "test"

\* The pass gives the store up and goes on with the next store (or the test).
NextStore == (pc' = "clean" /\ storeIdx' = storeIdx + 1 /\ stmtIdx' = 0) \/ pc' = "test"

\* C4, as stated: a failing TRUNCATE changes no committed row and the next
\* statement of the plan is executed.
C4_FailureNeverSkipsStatements ==
    [][TruncateFailed => db' = db /\ NextStatement]_vars

\* C4, amended: every statement is committed by itself; a failing TRUNCATE changes
\* no committed row, leaves the connection outside a transaction, and the next
\* statement is executed, unless the rollback itself raises (the connection is
\* lost): then the rest of that store's statements is skipped and the pass goes on
\* with the next store. The pass always goes on: no exception leaves it.
C4_StatementFailureIsContained ==
    [][pc = "clean" /\ ev'.op = "truncate" =>
        /\ pc' \in {"clean", "test"}
        /\ ev'.exc = "none" =>
            /\ db'[ev'.store][ev'.table] = {}
            /\ conn'[ev'.store] = "idle"
            /\ NextStatement
        /\ ev'.exc # "none" =>
            /\ db' = db
            /\ conn'[ev'.store] \in {"idle", "closed"}
            /\ conn'[ev'.store] = "idle" => NextStatement
            /\ conn'[ev'.store] = "closed" => NextStore]_vars

\* A TRUNCATE of a table with rows was refused, and the pass is at the next statement.
C4_Witness ==
    /\ pc = "clean"
    /\ ev.op = "truncate"
    /\ ev.exc = "DatabaseError"
    /\ db[ev.store][ev.table] # {}
    /\ stmtIdx > 1
    /\ truncate_queries[stmtIdx - 1] = ev.table

-----------------------------------------------------------------------------
(* Bring-up and the readiness probes: properties of Spec. *)

\* A test or a reset pass has started (or the session is past its tests).
TestsStarted == pc \in {"ready", "clean", "test", "finished"}

IsServiceProbe(i) == \E k \in 1..Len(SERVICES) : Probes[i] = SERVICES[k]

\* C5: the probes run in the order configuration server, Eureka, gateway, user,
\* product, order, moderation service; a probe is polled only when every probe
\* before it has succeeded; a probe that has succeeded is never polled again; no
\* test and no reset pass starts before all seven have succeeded.
C5_ProbesInOrderBeforeTests ==
    /\ [](/\ Probes = <<"config-server", "eureka", "gateway", "user-service",
                        "product-service", "order-service", "moderation-service">>
          /\ \A i \in 1..Len(Probes) : polls[i] # "none" => \A j \in 1..i - 1 : polls[j] = "ok"
          /\ TestsStarted => \A i \in 1..Len(Probes) : polls[i] = "ok")
    /\ [][\A i \in 1..Len(Probes) : polls[i] = "ok" => polls'[i] = "ok"]_vars

\* The reset pass of a test runs after the seven probes have succeeded.
C5_Witness == pc = "clean" /\ \A i \in 1..Len(Probes) : polls[i] = "ok"

\* C6: once a probe has exhausted its deadline the session is aborted and stays
\* so: the probes after it are never attempted, the probe is not polled again, and
\* no test and no reset pass runs.
C6_DeadlineAbortsSession ==
    /\ [](\A i \in 1..Len(Probes) : polls[i] = "failed" =>
            /\ pc = "aborted"
            /\ \A j \in i + 1..Len(Probes) : polls[j] = "none"
            /\ testsRun = 0
            /\ storeIdx = 0)
    /\ [][pc = "aborted" => FALSE]_vars

\* A through-gateway probe has exhausted its deadline after the first three succeeded.
C6_Witness == pc = "aborted" /\ IsServiceProbe(probeIdx) /\ polls[probeIdx] = "failed"

\* C7, as stated: with a failed launch command the session stops: no test runs.
C7_LaunchFailureStopsSession ==
    (upRc.config = "failed" \/ upRc.full = "failed") => ~TestsStarted

\* The probe sleeps wait_fixed and polls again: its deadline had not passed.
PolledAgain ==
    /\ pc' = "probe"
    /\ probeIdx' = probeIdx
    /\ elapsed' >= elapsed + WaitFixed
    /\ elapsed' - WaitFixed < Deadline(Probes[probeIdx])

\* The probe gives up: its deadline has passed.
GaveUp == pc' = "aborted" /\ elapsed' >= Deadline(Probes[probeIdx])

\* C8: a through-gateway probe that gets 503 polls again after the interval as long
\* as its deadline has not passed, and returns on the first 200 that carries a JSON
\* (object) body; after that it is not polled again.
C8_Retry503Succeed200 ==
    [][/\ (pc = "probe" /\ IsServiceProbe(probeIdx) /\ lastResp'.code = 503) =>
            PolledAgain \/ GaveUp
       /\ (pc = "probe" /\ IsServiceProbe(probeIdx) /\ lastResp' = [code |-> 200, body |-> "json_object"]) =>
            pc' = "probed" /\ polls'[probeIdx] = "ok"
       /\ (pc = "probed" /\ IsServiceProbe(probeIdx)) =>
            (pc' = "probe" => probeIdx' # probeIdx) /\ polls'[probeIdx] = "ok"]_vars

\* A through-gateway probe has returned on a 200 after attempts that failed.
C8_Witness ==
    /\ pc = "probed"
    /\ IsServiceProbe(probeIdx)
    /\ lastResp = [code |-> 200, body |-> "json_object"]
    /\ elapsed > RequestTimeout

\* C9, as stated: on a status that is neither 200 nor 503 the through-gateway probe
\* does not keep polling.
C9_OtherStatusStopsPolling ==
    [][(pc = "probe" /\ IsServiceProbe(probeIdx) /\ lastResp'.code = 404) => pc' # "probe"]_vars

\* C9, amended: a status that is neither 200 nor 503 is handled exactly as 503: the
\* probe polls again after the interval as long as its deadline has not passed.
C9_OtherStatusRetriedLike503 ==
    [][(pc = "probe" /\ IsServiceProbe(probeIdx) /\ lastResp'.code \notin {200, 503} /\ lastResp' # NoResponse) =>
            PolledAgain \/ GaveUp]_vars

\* A through-gateway probe goes on polling after a 404.
C9_Witness == pc = "probe" /\ IsServiceProbe(probeIdx) /\ lastResp.code = 404

\* The deadline of the running probe, as the claim gives it.
ClaimedDeadline == IF Probes[probeIdx] = "config-server" THEN 900 ELSE 500

\* C10: a probe never reports failure before its deadline (900 s for the
\* configuration server, 500 s for the others), reports it at most one interval
\* plus one request timeout after it, starts no attempt later than one interval
\* after the deadline, and waits the 5 s interval between two attempts.
C10_ProbesAreTimeBounded ==
    /\ [](/\ pc = "aborted" => elapsed >= ClaimedDeadline /\ elapsed <= ClaimedDeadline + 5 + 10
          /\ pc = "probe" => elapsed < ClaimedDeadline + 5)
    /\ [][pc = "probe" /\ pc' = "probe" /\ probeIdx' = probeIdx =>
            elapsed' \in {elapsed + d + 5 : d \in 0..10}]_vars

\* The configuration server's probe has given up as late as it can.
C10_Witness ==
    /\ pc = "aborted"
    /\ probeIdx = 1
    /\ elapsed = ConfigDeadline + WaitFixed + RequestTimeout - 1

-----------------------------------------------------------------------------
(* The session's start and teardown: properties of Spec. *)

\* A test or its reset pass can run, or is running.
TestsRunning == pc \in {"ready", "clean", "test"}

\* C11: in a session whose bring-up succeeds the start sequence (teardown of the
\* leftovers, then the two launches) runs once and before the first test, and the
\* final teardown runs once, from between two tests, after which nothing runs:
\* while tests can run exactly one down has been issued (the leftovers') and both
\* launches have been issued; a launch is never issued again; the second down is
\* issued only by the step that ends the session, and no step follows it.
C11_StartOnceTeardownOnce ==
    /\ [](/\ upRc.config # "none" => downs >= 1
          /\ upRc.full # "none" => upRc.config # "none"
          /\ TestsRunning => downs = 1 /\ upRc.config # "none" /\ upRc.full # "none"
          /\ testsRun > 0 => upRc.full # "none"
          /\ pc = "finished" => downs = 2
          /\ downs <= 2)
    /\ [][/\ upRc.config # "none" => upRc'.config = upRc.config
          /\ upRc.full # "none" => upRc'.full = upRc.full
          /\ (downs = 1 /\ downs' # downs) => pc = "ready" /\ pc' = "finished" /\ downs' = 2
          /\ pc = "finished" => FALSE]_vars

\* The session has ended by its teardown after tests were run.
C11_Witness == pc = "finished" /\ testsRun > 0 /\ downs = 2

-----------------------------------------------------------------------------
(* Two reset passes in a row: properties of DataSpec. *)

\* The step that ends a reset pass run right after another: nothing used a store
\* since the pass before it finished.
SecondPassEnds == pc = "clean" /\ pc' = "test" /\ snap.valid

\* C12, as stated: a reset pass run right after another leaves every store with
\* the committed rows the first one left.
C12_SecondPassChangesNothing ==
    [][SecondPassEnds => db' = snap.db]_vars

\* C12, amended: a reset pass run right after another leaves every store with the
\* committed rows the first one left, provided every statement that failed or was
\* skipped in the first pass fails or is skipped again in the second.
C12_SecondPassChangesNothingUnlessRetrySucceeds ==
    [][(SecondPassEnds /\ snap.failed \subseteq failed') => db' = snap.db]_vars

\* A reset pass run right after another is at its last statement: rows survived
\* the first pass and, so far, the second.
C12_Witness ==
    /\ pc = "clean"
    /\ snap.valid
    /\ storeIdx = Len(CleanOrder)
    /\ stmtIdx = Len(truncate_queries)
    /\ \E s \in Stores : \E t \in schema[s] : snap.db[s][t] # {}
    /\ snap.failed \subseteq failed \cup {<<CleanOrder[storeIdx], truncate_queries[stmtIdx]>>}
    /\ db = snap.db

-----------------------------------------------------------------------------
(* create_user without the role table: properties of DataSpec. *)

\* C13: where the user_roles table is absent, create_user on a usable handle
\* executes the insert of the first role only (none for an empty list), raises
\* nothing and returns the identifier the users insert generated; so does every
\* call the tests made.
C13_MissingRoleTableEndsRoleLoop ==
    /\ (pc = "test" /\ "user_roles" \notin schema["db_user"] /\ conn["db_user"] = "idle") =>
            \A roles \in RoleLists :
                LET R == create_user(Sess("db_user"), nextId, roles, "ok", 0, "error")
                IN  /\ R.exc = "none"
                    /\ R.ret = nextId
                    /\ R.n = IF roles = <<>> THEN 0 ELSE 1
    /\ (ev.op = "create_user" /\ "user_roles" \notin schema["db_user"] /\ ev.exc = "none") =>
            ev.n <= 1 /\ ev.id > 0

\* create_user has returned an identifier after its one role insert met the
\* missing table.
C13_Witness ==
    /\ ev.op = "create_user"
    /\ "user_roles" \notin schema["db_user"]
    /\ ev.exc = "none"
    /\ ev.n = 1
    /\ ev.id > 0

-----------------------------------------------------------------------------
(* The teardown of an aborted session: a property of Spec. *)

\* C14, as stated: a session that has issued a launch command and has ended, by
\* its last test or by a probe that exhausted its deadline, has issued the teardown
\* (the second down -v, after the one that removed the leftovers).
C14_EndedSessionIsTornDown ==
    (pc \in {"finished", "aborted"} /\ upRc.config # "none") => downs = 2

-----------------------------------------------------------------------------
(* The state the operations leave a handle in: properties of DataSpec. *)

\* The step is a call of a fixture loader.
LoaderCall == ev'.op \in Loaders /\ nextId' # nextId

\* The step is a statement of the reset pass.
ResetStatement == pc = "clean" /\ stmtIdx > 0

\* C15, as stated: a failure of an earlier operation never makes an operation
\* fail: a loader call that meets no fault of its own returns normally.
C15_NoFailureReachesNextOperation ==
    [][(LoaderCall /\ faults' = faults) => ev'.exc = "none"]_vars

\* C15, amended: between the steps every handle is either idle, with no open and
\* no aborted transaction and nothing uncommitted, or lost; an operation on an
\* idle handle that meets no fault of its own does not fail whatever failed
\* before it (a loader returns, a TRUNCATE of an existing table succeeds) and
\* what create_shop and create_product report as inserted is committed; on a
\* lost handle every loader call raises.
C15_HandlesLeftIdleOrLost ==
    /\ [](\A s \in Stores :
            /\ conn[s] \in {"idle", "closed"}
            /\ work[s] = db[s])
    /\ [][/\ (LoaderCall /\ faults' = faults /\ conn[ev'.store] = "idle") => ev'.exc = "none"
          /\ (LoaderCall /\ conn[ev'.store] = "closed") => ev'.exc = "InterfaceError"
          /\ (LoaderCall /\ ev'.op # "create_user" /\ ev'.exc = "none") =>
                ev'.id \in db'[ev'.store][ev'.table]
          /\ (ResetStatement /\ faults' = faults /\ conn[ev'.store] = "idle"
                /\ ev'.table \in schema[ev'.store]) =>
                ev'.exc = "none" /\ db'[ev'.store][ev'.table] = {}]_vars

\* A loader has returned normally on a handle that an earlier operation's failure
\* left idle.
C15_Witness ==
    /\ ev.op \in Loaders
    /\ ev.exc = "none"
    /\ ev.id > 0
    /\ faults > 0
    /\ \A s \in Stores : conn[s] = "idle"

-----------------------------------------------------------------------------
(* The stores of one reset pass: properties of DataSpec. *)

\* C16: a reset pass starts at the first store of the order order, moderation,
\* product, user and ends only after the last; a step of the pass changes the
\* rows and the handle of the store it is at and of no other; from a store the
\* pass goes on to the next statement of that store or to the store after it,
\* and it enters every store whose handle is usable whatever failed in the
\* stores before; when the pass has finished, every store in which no statement
\* failed or was skipped has all its tables empty.
C16_StoresResetIndependently ==
    /\ [](/\ CleanOrder = <<"db_order", "db_moderation", "db_product", "db_user">>
          /\ JustReset => \A s \in Stores :
                (\A t \in Tables : <<s, t>> \notin failed) => \A t \in schema[s] : db[s][t] = {})
    /\ [][/\ (pc = "ready" /\ pc' = "clean") => storeIdx' = 1 /\ stmtIdx' = 0
          /\ pc = "clean" =>
                /\ \A s \in Stores \ {CleanOrder[storeIdx]} :
                        db'[s] = db[s] /\ work'[s] = work[s] /\ conn'[s] = conn[s]
                /\ pc' \in {"clean", "test"}
                /\ pc' = "clean" => \/ storeIdx' = storeIdx /\ stmtIdx' = stmtIdx + 1
                                    \/ storeIdx' = storeIdx + 1 /\ stmtIdx' = 0
                /\ pc' = "test" => storeIdx = Len(CleanOrder)
                /\ (stmtIdx = 0 /\ conn[CleanOrder[storeIdx]] # "closed") =>
                        pc' = "clean" /\ storeIdx' = storeIdx /\ stmtIdx' = 1]_vars

\* A TRUNCATE has removed rows from a store although the handle of a store
\* earlier in the order is lost.
C16_Witness ==
    /\ ev.op = "truncate"
    /\ ev.exc = "none"
    /\ ev.n > 0
    /\ \E k \in 1..Len(CleanOrder) : \E j \in 1..k - 1 :
            CleanOrder[k] = ev.store /\ conn[CleanOrder[j]] = "closed"

====
